---- MODULE Spec2Model ----
(***************************************************************************)
(* Model of soap_calc_app.py: the lye and water calculation engine         *)
(* (calc_lye_required, water_from_lye_concentration,                       *)
(* water_from_water_lye_ratio) and the Streamlit script that drives it.    *)
(*                                                                         *)
(* Python floats are IEEE-754 binary64.  Every arithmetic step of the code *)
(* is modelled bit-exactly: a float is a sign, a 53-bit significand and an *)
(* exponent, and each operation rounds its exact result to nearest, ties   *)
(* to even.  Significands and exact intermediate results do not fit TLC's  *)
(* 32-bit integers, so they are kept as sequences of digits in base 2^14.   *)
(***************************************************************************)
EXTENDS Integers, Sequences, FiniteSets, TLC

----------------------------------------------------------------------------
(* Naturals wider than TLC's integers: a sequence of digits in base 2^14,  *)
(* least significant digit first.  Digits beyond the end are 0.            *)

DigitBits == 14
D == 2 ^ DigitBits

Dg(d, i) == IF i >= 1 /\ i <= Len(d) THEN d[i] ELSE 0

\* the number that the n <= 14 bits of d from bit pos upwards form; the bits
\* at negative positions are 0
Field(d, pos, n) ==
  IF pos >= 0
  THEN LET i == pos \div DigitBits + 1
           r == pos % DigitBits
       IN  ((Dg(d, i) \div 2 ^ r) + Dg(d, i + 1) * 2 ^ (DigitBits - r)) % 2 ^ n
  ELSE IF pos + n <= 0 THEN 0
  ELSE (Dg(d, 1) % 2 ^ (n + pos)) * 2 ^ (-pos)

\* d * 2^k (k may be negative: then floor(d / 2^k)), as len digits
RECURSIVE ShiftFrom(_, _, _, _)
ShiftFrom(d, k, j, len) ==
  IF j > len THEN <<>>
  ELSE <<Field(d, DigitBits * (j - 1) - k, DigitBits)>> \o ShiftFrom(d, k, j + 1, len)

Shift(d, k, len) == ShiftFrom(d, k, 1, len)

RECURSIVE BitLenSmall(_)
BitLenSmall(n) == IF n = 0 THEN 0 ELSE 1 + BitLenSmall(n \div 2)

\* the number of bits of d, looking at its digits from the i-th down
RECURSIVE BitLenFrom(_, _)
BitLenFrom(d, i) ==
  IF i = 0 THEN 0
  ELSE IF d[i] = 0 THEN BitLenFrom(d, i - 1)
  ELSE DigitBits * (i - 1) + BitLenSmall(d[i])

BitLen(d) == BitLenFrom(d, Len(d))

\* some bit of d below bit k is 1
LowBitsNonZero(d, k) ==
  \/ \E j \in 1..(k \div DigitBits) : Dg(d, j) # 0
  \/ Dg(d, k \div DigitBits + 1) % 2 ^ (k % DigitBits) # 0

\* -1, 0, 1 as a <, =, > b, looking at the digits from the i-th down
RECURSIVE CmpFrom(_, _, _)
CmpFrom(a, b, i) ==
  IF i = 0 THEN 0
  ELSE IF Dg(a, i) < Dg(b, i) THEN -1
  ELSE IF Dg(a, i) > Dg(b, i) THEN 1
  ELSE CmpFrom(a, b, i - 1)

Cmp(a, b) == CmpFrom(a, b, IF Len(a) > Len(b) THEN Len(a) ELSE Len(b))

\* a + b + c from the i-th digit up, as digits up to the len-th
RECURSIVE AddFrom(_, _, _, _, _)
AddFrom(a, b, i, c, len) ==
  IF i > len THEN <<>>
  ELSE LET t == Dg(a, i) + Dg(b, i) + c
       IN  <<t % D>> \o AddFrom(a, b, i + 1, t \div D, len)

Add(a, b, len) == AddFrom(a, b, 1, 0, len)

\* a - b - br from the i-th digit up, for a >= b
RECURSIVE SubFrom(_, _, _, _, _)
SubFrom(a, b, i, br, len) ==
  IF i > len THEN <<>>
  ELSE LET t == Dg(a, i) - Dg(b, i) - br
       IN  IF t < 0 THEN <<t + D>> \o SubFrom(a, b, i + 1, 1, len)
           ELSE <<t>> \o SubFrom(a, b, i + 1, 0, len)

Sub(a, b, len) == SubFrom(a, b, 1, 0, len)

\* a * n + c from the i-th digit up, for 0 <= n < 2^16
RECURSIVE MulSmallFrom(_, _, _, _, _)
MulSmallFrom(a, n, i, c, len) ==
  IF i > len THEN <<>>
  ELSE LET t == Dg(a, i) * n + c
       IN  <<t % D>> \o MulSmallFrom(a, n, i + 1, t \div D, len)

MulSmall(a, n, len) == MulSmallFrom(a, n, 1, 0, len)

\* the digits of an int 0 <= n < 2^31
Digits(n) == <<n % D, (n \div D) % D, n \div (D * D)>>

\* a * b for two numbers of four digits, as eight digits
Mul4(a, b) ==
  LET t1 == a[1] * b[1]
      t2 == a[1] * b[2] + a[2] * b[1] + t1 \div D
      t3 == a[1] * b[3] + a[2] * b[2] + a[3] * b[1] + t2 \div D
      t4 == a[1] * b[4] + a[2] * b[3] + a[3] * b[2] + a[4] * b[1] + t3 \div D
      t5 == a[2] * b[4] + a[3] * b[3] + a[4] * b[2] + t4 \div D
      t6 == a[3] * b[4] + a[4] * b[3] + t5 \div D
      t7 == a[4] * b[4] + t6 \div D
  IN  <<t1 % D, t2 % D, t3 % D, t4 % D, t5 % D, t6 % D, t7 % D, t7 \div D>>

\* <<q, r>> with a = q * b + r and r < b, given <<q0, a - q0 * b>> for a
\* q0 that is at most 2 short of q
RECURSIVE Fix(_, _, _)
Fix(q, r, b) == IF Cmp(r, b) >= 0 THEN Fix(q + 1, Sub(r, b, 5), b) ELSE <<q, r>>

\* <<q, r>> with rem * D = q * b + r and r < b, for rem < b and b a number
\* of exactly 53 bits.  The trial digit divides the leading bits of rem * D
\* by those of b plus one: it is never above q and at most 2 below it.
DivStep(rem, b) ==
  LET bt == b[3] \div 2 ^ 10 + b[4] * 2 ^ 4
      rt == rem[2] \div 2 ^ 10 + rem[3] * 2 ^ 4 + rem[4] * 2 ^ 18
      q0 == rt \div (bt + 1)
  IN  Fix(q0, Sub(<<0, rem[1], rem[2], rem[3], rem[4]>>, MulSmall(b, q0, 5), 5), b)

\* the n digits of rem / b after the point, below the digits q found so far,
\* and whether a remainder is left
RECURSIVE DivDigits(_, _, _, _), DivNext(_, _, _, _)
DivDigits(q, rem, b, n) ==
  IF n = 0 THEN [q |-> q, rest |-> \E j \in 1..4 : rem[j] # 0]
  ELSE DivNext(q, DivStep(rem, b), b, n)

DivNext(q, st, b, n) == DivDigits(<<st[1]>> \o q, st[2], b, n - 1)

----------------------------------------------------------------------------
(* binary64.  A nonzero float is [s, m, e] with value (-1)^s * m * 2^e, m  *)
(* a number of exactly 53 bits in four digits; zero is FZero (the sign of  *)
(* a zero is not kept: the program only compares floats and never divides  *)
(* by one that can be 0).  Exponents are not range-checked: InRange states *)
(* what binary64 needs of them.                                            *)

Precision == 53

FZero == [s |-> 0, m |-> <<0, 0, 0, 0>>, e |-> 0]

IsZero(x) == x.m = <<0, 0, 0, 0>>

\* the 53 bits of d from bit k upwards
Top(d, k) ==
  <<Field(d, k, DigitBits), Field(d, k + DigitBits, DigitBits),
    Field(d, k + 2 * DigitBits, DigitBits),
    Field(d, k + 3 * DigitBits, Precision - 3 * DigitBits)>>

\* m + 1 for a 53-bit m, times 2^e
NextUp(s, m, e) ==
  IF m = <<D - 1, D - 1, D - 1, 2 ^ (Precision - 3 * DigitBits) - 1>>
  THEN [s |-> s, m |-> <<0, 0, 0, 2 ^ (Precision - 3 * DigitBits - 1)>>, e |-> e + 1]
  ELSE [s |-> s, m |-> Add(m, <<1>>, 4), e |-> e]

\* the float of significand q, or the next one up
Pack(s, q, e, up) == IF up THEN NextUp(s, q, e) ELSE [s |-> s, m |-> q, e |-> e]

\* d is nearer to the next multiple of 2^k than to the one below it, or is
\* half way between them and the one below is an odd multiple
RoundsUp(d, k) ==
  /\ k > 0
  /\ Field(d, k - 1, 1) = 1
  /\ LowBitsNonZero(d, k - 1) \/ Field(d, k, 1) = 1

\* FRound for a d whose 53 leading bits are those from bit k up
RoundAt(s, d, E, k) ==
  IF k + Precision = 0 THEN FZero
  ELSE Pack(s, Top(d, k), E + k, RoundsUp(d, k))

\* the exact value (-1)^s * d * 2^E rounded to nearest, ties to even
FRound(s, d, E) == RoundAt(s, d, E, BitLen(d) - Precision)

\* float(n) for an int n with |n| < 2^31
FromInt(n) == FRound(IF n < 0 THEN 1 ELSE 0, Digits(IF n < 0 THEN -n ELSE n), 0)

FNeg(x) == IF IsZero(x) THEN x ELSE [x EXCEPT !.s = 1 - x.s]

FMul(x, y) ==
  IF IsZero(x) \/ IsZero(y) THEN FZero
  ELSE FRound((x.s + y.s) % 2, Mul4(x.m, y.m), x.e + y.e)

\* the quotient's digits below its leading bit, then one more bit that is 1
\* iff the division left a remainder
QuotientBits(q, first) ==
  Add(Shift(q.q \o <<first>>, 1, 5), <<IF q.rest THEN 1 ELSE 0>>, 5)

\* x / y for nonzero x and y, first being the integer part (0 or 1) of the
\* quotient of the significands: that quotient to 56 bits after the point
DivFrom(x, y, first) ==
  FRound((x.s + y.s) % 2,
         QuotientBits(DivDigits(<<>>, IF first = 1 THEN Sub(x.m, y.m, 4) ELSE x.m,
                                y.m, 4),
                      first),
         x.e - y.e - (4 * DigitBits + 1))

\* x / y for y # 0
FDiv(x, y) ==
  IF IsZero(x) THEN FZero
  ELSE DivFrom(x, y, IF Cmp(x.m, y.m) >= 0 THEN 1 ELSE 0)

\* x + y for x.m * 2^(x.e - y.e) = mx, which is <, = or > y.m as c is -1, 0, 1
AddSigned(x, y, mx, c) ==
  FRound(IF x.s = y.s \/ c > 0 THEN x.s ELSE y.s,
         IF x.s = y.s THEN Add(mx, y.m, 8)
         ELSE IF c >= 0 THEN Sub(mx, y.m, 8)
         ELSE Sub(y.m, mx, 8),
         y.e)

AddAligned(x, y, mx) == AddSigned(x, y, mx, Cmp(mx, y.m))

\* x + y for nonzero x and y with x.e >= y.e.  With the exponents 56 or more
\* apart y is less than a quarter of the gap between x and either neighbour.
AddOrdered(x, y) ==
  IF x.e - y.e >= Precision + 3 THEN x
  ELSE AddAligned(x, y, Shift(x.m, x.e - y.e, 8))

FAdd(x, y) ==
  IF IsZero(x) THEN y
  ELSE IF IsZero(y) THEN x
  ELSE AddOrdered(IF x.e >= y.e THEN x ELSE y, IF x.e >= y.e THEN y ELSE x)

FSub(x, y) == FAdd(x, FNeg(y))

\* -1, 0, 1 as x <, ==, > y
FCmp(x, y) ==
  IF IsZero(x) /\ IsZero(y) THEN 0
  ELSE IF IsZero(x) THEN (IF y.s = 1 THEN 1 ELSE -1)
  ELSE IF IsZero(y) THEN (IF x.s = 1 THEN -1 ELSE 1)
  ELSE IF x.s # y.s THEN (IF x.s = 1 THEN -1 ELSE 1)
  ELSE LET c == IF x.e # y.e THEN (IF x.e < y.e THEN -1 ELSE 1)
                ELSE Cmp(x.m, y.m)
       IN  IF x.s = 0 THEN c ELSE -c

FLe(x, y) == FCmp(x, y) <= 0
FGe(x, y) == FCmp(x, y) >= 0

\* the float a decimal literal n / 10^k denotes (n < 2^31, k <= 9): both are
\* exact floats and the division rounds correctly, as the literal's parse does
Dec(n, k) == FDiv(FromInt(n), FromInt(10 ^ k))

\* the float a longer decimal literal (hi * 10^6 + lo) / 10^k denotes
DecLong(hi, lo, k) ==
  FDiv(FRound(0, Add(MulSmall(MulSmall(Digits(hi), 1000, 4), 1000, 4), Digits(lo), 4), 0),
       FromInt(10 ^ k))

F1 == FromInt(1)
F100 == FromInt(100)

\* binary64 holds x as a normal number (no overflow to inf, no subnormal)
InRange(x) == IsZero(x) \/ (x.e >= -1074 /\ x.e <= 971)

----------------------------------------------------------------------------
(* The engine.                                                             *)

SAP_NAOH ==
  ("Olive Oil" :> Dec(134, 3))
  @@ ("Coconut Oil 76°" :> Dec(183, 3))
  @@ ("Palm Oil" :> Dec(142, 3))
  @@ ("Castor Oil" :> Dec(128, 3))
  @@ ("Shea Butter" :> Dec(128, 3))
  @@ ("Cocoa Butter" :> Dec(137, 3))
  @@ ("Avocado Oil" :> Dec(133, 3))
  @@ ("Sunflower Oil (high linoleic)" :> Dec(135, 3))
  @@ ("Sweet Almond Oil" :> Dec(136, 3))
  @@ ("Grapeseed Oil" :> Dec(135, 3))
  @@ ("Rice Bran Oil" :> Dec(128, 3))
  @@ ("Canola Oil" :> Dec(133, 3))
  @@ ("Lard" :> Dec(138, 3))
  @@ ("Tallow" :> Dec(141, 3))

KOH_FACTOR == Dec(1403, 3)

\* ResolveSap with the KOH branch lost: the NaOH value for either alkali
ResolveSapNaOHOnly(sap_naoh, alkali) == sap_naoh

\* lines 38-41: the oil's SAP value for the alkali
ResolveSap(sap_naoh, alkali) ==
  IF alkali = "NaOH" THEN sap_naoh ELSE FMul(sap_naoh, KOH_FACTOR)

\* AppendRow putting the new row first
PrependRow(rows, oil, w, sap, lye_for_oil_0sf) ==
  <<[Oil |-> oil.name, Weight |-> w, SAP |-> sap, Lye0SF |-> lye_for_oil_0sf]>> \o rows

\* lines 46-51: the row appended for one oil
AppendRow(rows, oil, w, sap, lye_for_oil_0sf) ==
  Append(rows, [Oil |-> oil.name, Weight |-> w, SAP |-> sap,
                Lye0SF |-> lye_for_oil_0sf])

\* lines 44-51: the loop's state after the body has added the oil's lye and
\* appended its row
LoopStep(st, oil, w, sap, lye_for_oil_0sf) ==
  [rows |-> AppendRow(st.rows, oil, w, sap, lye_for_oil_0sf),
   total_lye_0sf |-> FAdd(st.total_lye_0sf, lye_for_oil_0sf)]

\* lines 36-51: one pass of the loop body
LoopBody(st, oil, sap) == LoopStep(st, oil, oil.weight_g, sap, FMul(oil.weight_g, sap))

\* lines 35-51: rows and total_lye_0sf after the loop has taken oils[i..]
RECURSIVE LyeLoop(_, _, _, _)
LyeLoop(oils, alkali, i, st) ==
  IF i > Len(oils) THEN st
  ELSE LyeLoop(oils, alkali, i + 1,
               LoopBody(st, oils[i], ResolveSap(oils[i].sap_naoh, alkali)))

\* pd.DataFrame(rows): the columns are the keys of the row dicts, so a frame
\* built from no rows has no columns at all
DataFrame(rows) ==
  [columns |-> IF rows = <<>> THEN {} ELSE {"Oil", "Weight", "SAP", "Lye0SF"},
   data |-> rows]

\* line 54
LyeDiscount(superfat_pct) == FSub(F1, FDiv(superfat_pct, F100))

\* DiscountedColumn with the discount left out
UndiscountedColumn(data, lye_discount) == [i \in 1..Len(data) |-> data[i].Lye0SF]

\* line 57, right-hand side: the 0%-superfat column times the discount
DiscountedColumn(data, lye_discount) ==
  [i \in 1..Len(data) |-> FMul(data[i].Lye0SF, lye_discount)]

\* line 57, assignment: the frame with the new column
WithLyeSF(df, column) ==
  [columns |-> df.columns \cup {"LyeSF"},
   data |-> [i \in 1..Len(df.data) |->
               [Oil |-> df.data[i].Oil, Weight |-> df.data[i].Weight,
                SAP |-> df.data[i].SAP, Lye0SF |-> df.data[i].Lye0SF,
                LyeSF |-> column[i]]]]

\* line 57, and the return of line 58.  The result is what the call ends
\* in: a return of (total_lye, df), or the KeyError line 57 raises when it
\* reads a column the frame does not have.
AddColumn(df, total_lye, lye_discount) ==
  IF "Lye0SF" \notin df.columns THEN [status |-> "KeyError"]
  ELSE [status |-> "returned", total_lye |-> total_lye,
        df |-> WithLyeSF(df, DiscountedColumn(df.data, lye_discount))]

\* lines 53-58, for the loop's result and the discount of line 54
AfterLoop(loop, lye_discount) ==
  AddColumn(DataFrame(loop.rows), FMul(loop.total_lye_0sf, lye_discount), lye_discount)

\* lines 26-58
calc_lye_required(oils, alkali, superfat_pct) ==
  AfterLoop(LyeLoop(oils, alkali, 1, [rows |-> <<>>, total_lye_0sf |-> FZero]),
            LyeDiscount(superfat_pct))

\* WaterAtFraction with the upper bound of line 66 lost
WaterAtFractionNoUpperBound(lye_g, c) ==
  IF FLe(c, FZero) THEN [status |-> "ValueError"]
  ELSE [status |-> "returned", water |-> FDiv(FMul(lye_g, FSub(F1, c)), c)]

\* lines 66-68, c being the fraction line 65 computes
WaterAtFraction(lye_g, c) ==
  IF FLe(c, FZero) \/ FGe(c, F1) THEN [status |-> "ValueError"]
  ELSE [status |-> "returned", water |-> FDiv(FMul(lye_g, FSub(F1, c)), c)]

\* lines 60-68
water_from_lye_concentration(lye_g, concentration_pct) ==
  WaterAtFraction(lye_g, FDiv(concentration_pct, F100))

\* water_from_water_lye_ratio dividing by the ratio
water_from_lye_water_ratio(lye_g, water_to_lye_ratio) ==
  IF FLe(water_to_lye_ratio, FZero) THEN [status |-> "ValueError"]
  ELSE [status |-> "returned", water |-> FDiv(lye_g, water_to_lye_ratio)]

\* lines 70-77
water_from_water_lye_ratio(lye_g, water_to_lye_ratio) ==
  IF FLe(water_to_lye_ratio, FZero) THEN [status |-> "ValueError"]
  ELSE [status |-> "returned", water |-> FMul(lye_g, water_to_lye_ratio)]

----------------------------------------------------------------------------
(* The Streamlit script.  Every interaction with a widget reruns the whole *)
(* script: the widgets are read, the oil rows are rebuilt from them and    *)
(* the calculation pipeline runs to one of its ends.                       *)

\* None, as the name of a row that has no oil selected
None == "None"

\* the selectbox's first option (line 234; its dashes are em dashes there)
PLACEHOLDER == "- Select an oil -"

OZ_TO_G == DecLong(28349, 523125, 9)

\* line 233: search.lower() in o.lower(), for the searches of SearchInputs
Contains(o, search) ==
  CASE search = "" -> TRUE
    [] search = "oil" ->
         o \in {"Olive Oil", "Coconut Oil 76°", "Palm Oil", "Castor Oil",
                "Avocado Oil", "Sunflower Oil (high linoleic)",
                "Sweet Almond Oil", "Grapeseed Oil", "Rice Bran Oil",
                "Canola Oil"}
    [] OTHER -> FALSE

\* line 234: the options, for the names line 233 has filtered
OptionsOf(oil_names, filtered) ==
  {PLACEHOLDER} \cup (IF filtered # {} THEN filtered ELSE oil_names)

\* lines 233-234: the options of a row's selectbox
OptionsFrom(oil_names, search) ==
  OptionsOf(oil_names, {o \in oil_names : Contains(o, search)})

\* line 218: oil_names
Options(search) == OptionsFrom(DOMAIN SAP_NAOH, search)

\* line 208: the row "Add another oil" appends
NewRow == [name |-> None, weight |-> FZero, search |-> ""]

\* line 247: the selectbox's value as a row's name
NameOf(selected) == IF selected = PLACEHOLDER THEN None ELSE selected

\* lines 236-247: what the selectbox gives for a row whose widget was not
\* touched: the option at index, which is the row's name when that is an
\* option and the placeholder (name None) when it is not
SelectedName(row) ==
  NameOf(IF row.name \in Options(row.search) THEN row.name ELSE PLACEHOLDER)

\* lines 221-266 with no widget touched: edited_rows
RenderRows(rows) ==
  [i \in 1..Len(rows) |->
     [name |-> SelectedName(rows[i]), weight |-> rows[i].weight,
      search |-> rows[i].search]]

\* line 261: oil_rows.pop(i)
Pop(rows, i) == SubSeq(rows, 1, i - 1) \o SubSeq(rows, i + 1, Len(rows))

\* lines 275-276
ToGrams(w_in, unit) == IF unit = "grams" THEN w_in ELSE FMul(w_in, OZ_TO_G)

\* lines 277-279 for the row r of weight w_g: the oil appended and the total
\* raised, or the KeyError of line 277 for a name that the table lacks
ConvertRow(cv, r, w_g, table) ==
  IF r.name \notin DOMAIN table THEN [status |-> "KeyError"]
  ELSE [status |-> "done",
        oils |-> Append(cv.oils, [name |-> r.name, weight_g |-> w_g,
                                  sap_naoh |-> table[r.name]]),
        total_oils_g |-> FAdd(cv.total_oils_g, w_g)]

\* lines 272-279: oils and total_oils_g after the loop has taken rows[i..],
\* or the KeyError that ended it
RECURSIVE ConvertLoop(_, _, _, _)
ConvertLoop(rows, unit, i, cv) ==
  IF i > Len(rows) \/ cv.status = "KeyError" THEN cv
  ELSE ConvertLoop(rows, unit, i + 1,
                   ConvertRow(cv, rows[i], ToGrams(rows[i].weight, unit), SAP_NAOH))

NothingShown == [status |-> "nothing"]

\* how a run ended before it reached the water calculation
EndedEarly(outcome, total, lye_called) ==
  [outcome |-> outcome, total_oils_g |-> total, lye_called |-> lye_called,
   water_status |-> "not called", shown |-> NothingShown]

\* lines 289-295: the water calculation for the mode the sidebar holds
WaterForMode(total_lye_g, water) ==
  IF water.mode = "Lye concentration (%)"
  THEN water_from_lye_concentration(total_lye_g, FromInt(water.lye_conc))
  ELSE water_from_water_lye_ratio(total_lye_g, water.water_ratio)

\* lines 300-310: the totals handed to the four metrics
Results(total_oils_g, total_lye_g, water_g) ==
  [outcome |-> "results", total_oils_g |-> [status |-> "known", g |-> total_oils_g],
   lye_called |-> TRUE, water_status |-> "returned",
   shown |-> [status |-> "shown", total_oils_g |-> total_oils_g,
              total_lye_g |-> total_lye_g, water_g |-> water_g,
              total_batch_g |-> FAdd(FAdd(total_oils_g, total_lye_g), water_g)]]

\* lines 296-310: the run's end once the water function has returned or
\* raised
AfterWater(cv, lyeR, waterR) ==
  IF waterR.status = "ValueError"
  THEN [outcome |-> "error", total_oils_g |-> [status |-> "known", g |-> cv.total_oils_g],
        lye_called |-> TRUE, water_status |-> "ValueError", shown |-> NothingShown]
  ELSE Results(cv.total_oils_g, lyeR.total_lye, waterR.water)

\* lines 286-310: the run's end once calc_lye_required has returned or raised
AfterLye(cv, lyeR, water) ==
  IF lyeR.status = "KeyError"
  THEN EndedEarly("KeyError", [status |-> "known", g |-> cv.total_oils_g], TRUE)
  ELSE AfterWater(cv, lyeR, WaterForMode(lyeR.total_lye, water))

\* lines 285-310: from the call of calc_lye_required to the metrics
Calculate(cv, alkali, superfat, water) ==
  AfterLye(cv, calc_lye_required(cv.oils, alkali, superfat), water)

\* AfterConvert with the check of lines 281-283 lost
AfterConvertUnchecked(cv, alkali, superfat, water) ==
  IF cv.status = "KeyError"
  THEN EndedEarly("KeyError", [status |-> "unknown"], FALSE)
  ELSE Calculate(cv, alkali, superfat, water)

\* lines 281-310: the run's end once the conversion loop has ended: the
\* uncaught KeyError, the warning (st.stop), the shown error (st.stop), or
\* the results
AfterConvert(cv, alkali, superfat, water) ==
  IF cv.status = "KeyError"
  THEN EndedEarly("KeyError", [status |-> "unknown"], FALSE)
  ELSE IF FLe(cv.total_oils_g, FZero)
  THEN EndedEarly("warning", [status |-> "known", g |-> cv.total_oils_g], FALSE)
  ELSE Calculate(cv, alkali, superfat, water)

\* lines 270-310: the run from the conversion to grams to its end
Pipeline(rows, alkali, unit, superfat, water) ==
  AfterConvert(ConvertLoop(rows, unit, 1,
                           [status |-> "done", oils |-> <<>>, total_oils_g |-> FZero]),
               alkali, superfat, water)

----------------------------------------------------------------------------
VARIABLES
  oil_rows,                       \* st.session_state.oil_rows
  alkali, unit, superfat, water,  \* the sidebar's widgets
  run,                            \* how the last run of the script ended
  oils, superfat_pct, lye,        \* calls of calc_lye_required
  lye_g, conc, ratio              \* calls of the two water functions

appVars == <<oil_rows, alkali, unit, superfat, water, run>>
lyeVars == <<oils, superfat_pct, lye>>
waterVars == <<lye_g, conc, ratio>>
vars == <<appVars, lyeVars, waterVars>>

NotCalled == [status |-> "not called"]
Alkalis == {"NaOH", "KOH"}

\* the longest oil list the engine is called with
MaxOils == 2

\* the oils and the superfat percentages the engine is called with
OilInputs ==
  { [name |-> "Olive Oil", weight_g |-> FromInt(500), sap_naoh |-> SAP_NAOH["Olive Oil"]],
    [name |-> "Olive Oil", weight_g |-> FromInt(100), sap_naoh |-> SAP_NAOH["Olive Oil"]],
    [name |-> "Coconut Oil 76°", weight_g |-> Dec(2505, 1), sap_naoh |-> SAP_NAOH["Coconut Oil 76°"]],
    [name |-> "Castor Oil", weight_g |-> Dec(2835, 2), sap_naoh |-> SAP_NAOH["Castor Oil"]],
    [name |-> "Tallow", weight_g |-> FromInt(1), sap_naoh |-> SAP_NAOH["Tallow"]],
    [name |-> "Lard", weight_g |-> FZero, sap_naoh |-> SAP_NAOH["Lard"]] }

SuperfatInputs ==
  {FromInt(-10), FZero, FromInt(5), Dec(75, 1), FromInt(20), Dec(995, 1),
   FromInt(100), FromInt(150)}

RECURSIVE SeqsUpTo(_, _)
SeqsUpTo(S, n) ==
  IF n = 0 THEN {<<>>}
  ELSE LET shorter == SeqsUpTo(S, n - 1)
       IN  shorter \cup {Append(q, x) : q \in shorter, x \in S}

WaterIdle == lye_g = FZero /\ conc = NotCalled /\ ratio = NotCalled

DefaultWater == [mode |-> "Lye concentration (%)", lye_conc |-> 33]

\* the script's first run: no rows, the widgets at their defaults
AppStart ==
  /\ oil_rows = <<>>
  /\ alkali = "NaOH"
  /\ unit = "grams"
  /\ superfat = FromInt(5)
  /\ water = DefaultWater
  /\ run = Pipeline(<<>>, "NaOH", "grams", FromInt(5), DefaultWater)

InitLye ==
  /\ oils \in SeqsUpTo(OilInputs, MaxOils)
  /\ superfat_pct \in SuperfatInputs
  /\ lye = [a \in Alkalis |-> NotCalled]
  /\ WaterIdle
  /\ AppStart

CallCalcLyeRequired(a) ==
  /\ lye[a] = NotCalled
  /\ lye' = [lye EXCEPT ![a] = calc_lye_required(oils, a, superfat_pct)]
  /\ UNCHANGED <<oils, superfat_pct, waterVars, appVars>>

NextLye == \E a \in Alkalis : CallCalcLyeRequired(a)

LyeSpec == InitLye /\ [][NextLye]_vars

----------------------------------------------------------------------------
(* Calls of the two water functions on one lye mass.                       *)

LyeIdle ==
  oils = <<>> /\ superfat_pct = FZero /\ lye = [a \in Alkalis |-> NotCalled]

\* the lye masses, percentages and ratios the water functions are called with
LyeMassInputs == {FZero, Dec(6365, 2), FromInt(67), Dec(94001, 3), FromInt(100)}

PctInputs ==
  {FromInt(-5), FZero, FromInt(1), FromInt(20), FromInt(33), FromInt(45),
   FromInt(99), FromInt(100), FromInt(150)}

\* the caller's ratio for a concentration: r = (1 - c) / c with c = pct / 100
EquivalentRatio(pct) ==
  LET c == FDiv(pct, F100) IN FDiv(FSub(F1, c), c)

ValidPct(pct) ==
  LET c == FDiv(pct, F100) IN FCmp(c, FZero) > 0 /\ FCmp(c, F1) < 0

RatioInputs ==
  {FromInt(-1), FZero, Dec(5, 1), FromInt(2), FromInt(5)}
    \cup {EquivalentRatio(pct) : pct \in {p \in PctInputs : ValidPct(p)}}

InitWater ==
  /\ lye_g \in LyeMassInputs
  /\ conc = NotCalled
  /\ ratio = NotCalled
  /\ LyeIdle
  /\ AppStart

CallWaterFromLyeConcentration(pct) ==
  /\ conc' = [status |-> "called", pct |-> pct,
              result |-> water_from_lye_concentration(lye_g, pct)]
  /\ UNCHANGED <<lye_g, ratio, lyeVars, appVars>>

CallWaterFromWaterLyeRatio(r) ==
  /\ ratio' = [status |-> "called", ratio |-> r,
               result |-> water_from_water_lye_ratio(lye_g, r)]
  /\ UNCHANGED <<lye_g, conc, lyeVars, appVars>>

NextWater ==
  \/ \E pct \in PctInputs : CallWaterFromLyeConcentration(pct)
  \/ \E r \in RatioInputs : CallWaterFromWaterLyeRatio(r)

WaterSpec == InitWater /\ [][NextWater]_vars

----------------------------------------------------------------------------
(* The user at the page.                                                   *)

\* the most oil rows the user keeps
MaxRows == 2

\* what the user picks and types
OilPicks == {"Olive Oil", "Lard"}
WeightInputs == {FZero, FromInt(500)}
SearchInputs == {""}
SuperfatPicks == {FromInt(5), FromInt(20)}
LyeConcPicks == {33}
WaterRatioPicks == {FromInt(2)}

Init ==
  /\ AppStart
  /\ LyeIdle
  /\ WaterIdle

\* the rest of a run whose widgets gave these rows (lines 266-310)
Rerun(rows, a, u, sf, wm) ==
  /\ oil_rows' = rows
  /\ alkali' = a
  /\ unit' = u
  /\ superfat' = sf
  /\ water' = wm
  /\ run' = Pipeline(rows, a, u, sf, wm)
  /\ UNCHANGED <<lyeVars, waterVars>>

\* lines 207-208 (the append is taken as the body of the if, which the
\* indentation of line 208 does not give it)
AddOil ==
  /\ Len(oil_rows) < MaxRows
  /\ Rerun(RenderRows(Append(oil_rows, NewRow)), alkali, unit, superfat, water)

\* lines 211-212
ClearOils == Rerun(RenderRows(<<>>), alkali, unit, superfat, water)

\* lines 260-262: the pop and the rerun it asks for.  The rerun's widgets
\* are keyed by position: a Streamlit that identifies a widget by its key
\* alone gives row j the values widget j held (the last row goes), one that
\* also identifies it by its default gives row j the popped list's values.
Remove(i) ==
  /\ i \in 1..Len(oil_rows)
  /\ \E byKey \in BOOLEAN :
       Rerun(RenderRows(IF byKey THEN SubSeq(oil_rows, 1, Len(oil_rows) - 1)
                        ELSE Pop(oil_rows, i)),
             alkali, unit, superfat, water)

\* lines 239-247: the user picks an option of row i's selectbox
SelectOil(i, selected) ==
  /\ i \in 1..Len(oil_rows)
  /\ selected \in Options(oil_rows[i].search)
  /\ Rerun(RenderRows([oil_rows EXCEPT ![i].name =
                         IF selected = PLACEHOLDER THEN None ELSE selected]),
           alkali, unit, superfat, water)

\* lines 250-257: the user sets row i's weight (min_value 0.0)
SetWeight(i, w) ==
  /\ i \in 1..Len(oil_rows)
  /\ FGe(w, FZero)
  /\ Rerun(RenderRows([oil_rows EXCEPT ![i].weight = w]),
           alkali, unit, superfat, water)

\* lines 225-237: the user types in row i's search box
SetSearch(i, search) ==
  /\ i \in 1..Len(oil_rows)
  /\ Rerun(RenderRows([oil_rows EXCEPT ![i].search = search]),
           alkali, unit, superfat, water)

\* lines 157-158
SetAlkali(a) == Rerun(RenderRows(oil_rows), a, unit, superfat, water)

\* line 160
SetUnit(u) == Rerun(RenderRows(oil_rows), alkali, u, superfat, water)

\* lines 162-168
SetSuperfat(sf) ==
  /\ FGe(sf, FZero) /\ FLe(sf, FromInt(20))
  /\ Rerun(RenderRows(oil_rows), alkali, unit, sf, water)

\* lines 171-194: the radio; the mode's own widget starts at its default
SetWaterMode(mode) ==
  /\ mode # water.mode
  /\ Rerun(RenderRows(oil_rows), alkali, unit, superfat,
           IF mode = "Lye concentration (%)" THEN DefaultWater
           ELSE [mode |-> mode, water_ratio |-> FromInt(2)])

\* lines 177-185
SetLyeConc(v) ==
  /\ water.mode = "Lye concentration (%)"
  /\ v \in 20..45
  /\ Rerun(RenderRows(oil_rows), alkali, unit, superfat, [water EXCEPT !.lye_conc = v])

\* lines 186-194
SetWaterRatio(v) ==
  /\ water.mode = "Water : lye ratio"
  /\ FGe(v, Dec(5, 1)) /\ FLe(v, FromInt(5))
  /\ Rerun(RenderRows(oil_rows), alkali, unit, superfat, [water EXCEPT !.water_ratio = v])

Next ==
  \/ AddOil
  \/ ClearOils
  \/ \E i \in 1..MaxRows : Remove(i)
  \/ \E i \in 1..MaxRows, selected \in OilPicks \cup {PLACEHOLDER} : SelectOil(i, selected)
  \/ \E i \in 1..MaxRows, w \in WeightInputs : SetWeight(i, w)
  \/ \E i \in 1..MaxRows, search \in SearchInputs : SetSearch(i, search)
  \/ \E a \in Alkalis : SetAlkali(a)
  \/ \E u \in {"grams", "ounces"} : SetUnit(u)
  \/ \E sf \in SuperfatPicks : SetSuperfat(sf)
  \/ \E mode \in {"Lye concentration (%)", "Water : lye ratio"} : SetWaterMode(mode)
  \/ \E v \in LyeConcPicks : SetLyeConc(v)
  \/ \E v \in WaterRatioPicks : SetWaterRatio(v)

Spec == Init /\ [][Next]_vars
----------------------------------------------------------------------------
(* Exact comparison of floats, for statements about rounding error.        *)

\* |x - y| <= k * 2^-p * |x|, for k < 2^14 and k * 2^-p < 1/4: floats of
\* different sign, or with exponents two or more apart, are further apart
\* than that
WithinRel(x, y, k, p) ==
  IF IsZero(x) \/ IsZero(y) THEN IsZero(x) /\ IsZero(y)
  ELSE IF x.s # y.s \/ x.e - y.e > 1 \/ y.e - x.e > 1 THEN FALSE
  ELSE LET e0 == IF x.e < y.e THEN x.e ELSE y.e
           mx == Shift(x.m, x.e - e0, 5)
           my == Shift(y.m, y.e - e0, 5)
           diff == IF Cmp(mx, my) >= 0 THEN Sub(mx, my, 5) ELSE Sub(my, mx, 5)
       IN  \* diff * 2^e0 * 2^p <= k * x.m * 2^x.e
           Cmp(Shift(diff, p - (x.e - e0), 9), MulSmall(x.m, k, 9)) <= 0

Returned(r) == r.status = "returned"

\* every float the calls produced is a normal binary64 number, so the
\* unchecked exponent range of the float model is not in play
AllInRange ==
  /\ \A a \in Alkalis :
       Returned(lye[a]) =>
         /\ InRange(lye[a].total_lye)
         /\ \A i \in 1..Len(lye[a].df.data) :
              InRange(lye[a].df.data[i].Lye0SF) /\ InRange(lye[a].df.data[i].LyeSF)
  /\ conc # NotCalled /\ Returned(conc.result) => InRange(conc.result.water)
  /\ ratio # NotCalled /\ Returned(ratio.result) => InRange(ratio.result.water)

----------------------------------------------------------------------------
(* The claims about calc_lye_required (LyeSpec).                           *)

\* the sum over the first n oils of weight_g * resolved sap, in list order
RECURSIVE SumOfOilLye(_, _, _)
SumOfOilLye(ol, a, n) ==
  IF n = 0 THEN FZero
  ELSE FAdd(SumOfOilLye(ol, a, n - 1),
            FMul(ol[n].weight_g,
                 IF a = "KOH" THEN FMul(ol[n].sap_naoh, Dec(1403, 3))
                 ELSE ol[n].sap_naoh))

\* C1: for every oil list, alkali and superfat, calc_lye_required returns
\* total = (sum of weight_g * resolved_sap) * (1 - superfat/100), the superfat
\* not clamped; 500 g of sap 0.134 with NaOH and superfat 5 gives 63.65.
C1_TotalFormula ==
  \A a \in Alkalis :
    lye[a] # NotCalled =>
      /\ Returned(lye[a])
      /\ lye[a].total_lye =
           FMul(SumOfOilLye(oils, a, Len(oils)),
                FSub(F1, FDiv(superfat_pct, F100)))
      /\ ( /\ a = "NaOH"
           /\ superfat_pct = FromInt(5)
           /\ Len(oils) = 1
           /\ oils[1].weight_g = FromInt(500)
           /\ oils[1].sap_naoh = Dec(134, 3) )
         => lye[a].total_lye = Dec(6365, 2)

\* C1, apart from the empty list: the same statement for every call that returns
C1_TotalFormulaWhenReturned ==
  \A a \in Alkalis :
    Returned(lye[a]) =>
      /\ lye[a].total_lye =
           FMul(SumOfOilLye(oils, a, Len(oils)),
                FSub(F1, FDiv(superfat_pct, F100)))
      /\ ( /\ a = "NaOH"
           /\ superfat_pct = FromInt(5)
           /\ Len(oils) = 1
           /\ oils[1].weight_g = FromInt(500)
           /\ oils[1].sap_naoh = Dec(134, 3) )
         => lye[a].total_lye = Dec(6365, 2)

\* C2: a call with an empty oil list does not end in an error: it returns
\* total 0 and a breakdown with no rows.
C2_EmptyListReturnsZero ==
  \A a \in Alkalis :
    (oils = <<>> /\ lye[a] # NotCalled) =>
      /\ Returned(lye[a])
      /\ IsZero(lye[a].total_lye)
      /\ Len(lye[a].df.data) = 0

\* the float sum of the discounted column over the first n rows, in row order
RECURSIVE SumOfLyeSF(_, _)
SumOfLyeSF(data, n) ==
  IF n = 0 THEN FZero ELSE FAdd(SumOfLyeSF(data, n - 1), data[n].LyeSF)

C4_Case(a) ==
  /\ Returned(lye[a])
  /\ FGe(superfat_pct, FZero) /\ FCmp(superfat_pct, F100) < 0
  /\ \A i \in 1..Len(oils) : FGe(oils[i].weight_g, FZero)

\* C4 as stated: for non-negative weights and superfat in [0,100) the total
\* returned equals the sum of the rows' discounted values.
C4_TotalEqualsRowSum ==
  \A a \in Alkalis :
    C4_Case(a) =>
      lye[a].total_lye = SumOfLyeSF(lye[a].df.data, Len(lye[a].df.data))

\* C4 amended: for non-negative weights and superfat in [0,100) the total
\* returned and the sum of the n rows' discounted values differ by at most
\* (n + 1) * 2^-52 of the total (rounding error).
C4_TotalNearRowSum ==
  \A a \in Alkalis :
    C4_Case(a) =>
      WithinRel(lye[a].total_lye,
                SumOfLyeSF(lye[a].df.data, Len(lye[a].df.data)),
                Len(oils) + 1, 52)

\* two oils whose discounted rows do not sum to the total bit for bit
C4_Witness ==
  \E a \in Alkalis :
    /\ C4_Case(a)
    /\ Len(lye[a].df.data) = 2
    /\ lye[a].total_lye # SumOfLyeSF(lye[a].df.data, 2)

\* C6 as stated: the total returned for KOH equals 1.403 * the total returned
\* for NaOH, for the same oils and superfat.
C6_KohEqualsScaledNaoh ==
  (Returned(lye["KOH"]) /\ Returned(lye["NaOH"])) =>
    lye["KOH"].total_lye = FMul(Dec(1403, 3), lye["NaOH"].total_lye)

\* C6 amended: for n oils of non-negative weight, the total returned for KOH
\* and 1.403 * the total returned for NaOH differ by at most (n + 3) * 2^-52
\* of the KOH total (rounding error).
C6_KohNearScaledNaoh ==
  (Returned(lye["KOH"]) /\ Returned(lye["NaOH"])) =>
    WithinRel(lye["KOH"].total_lye,
              FMul(Dec(1403, 3), lye["NaOH"].total_lye),
              Len(oils) + 3, 52)

\* both alkalis computed for one oil list and the totals not in the exact ratio
C6_Witness ==
  /\ Returned(lye["KOH"]) /\ Returned(lye["NaOH"])
  /\ ~IsZero(lye["NaOH"].total_lye)
  /\ lye["KOH"].total_lye # FMul(Dec(1403, 3), lye["NaOH"].total_lye)

\* C7: with superfat 0 the call returns the undiscounted sum of the per-oil
\* lye masses, and with superfat 100 it returns total 0.
C7_SuperfatZeroAndHundred ==
  \A a \in Alkalis :
    lye[a] # NotCalled =>
      /\ superfat_pct = FZero =>
           Returned(lye[a])
           /\ lye[a].total_lye = SumOfOilLye(oils, a, Len(oils))
      /\ superfat_pct = F100 =>
           Returned(lye[a]) /\ IsZero(lye[a].total_lye)

\* C7, apart from the empty list: the same statement for every call that returns
C7_WhenReturned ==
  \A a \in Alkalis :
    Returned(lye[a]) =>
      /\ superfat_pct = FZero =>
           lye[a].total_lye = SumOfOilLye(oils, a, Len(oils))
      /\ superfat_pct = F100 => IsZero(lye[a].total_lye)

\* C8: the breakdown returned has exactly one row per input oil, in the
\* input order: row i carries the name and the weight of the i-th oil.
C8_RowsFollowInput ==
  \A a \in Alkalis :
    Returned(lye[a]) =>
      /\ Len(lye[a].df.data) = Len(oils)
      /\ \A i \in 1..Len(oils) :
           /\ lye[a].df.data[i].Oil = oils[i].name
           /\ lye[a].df.data[i].Weight = oils[i].weight_g

\* a breakdown of two different oils
C8_Witness ==
  \E a \in Alkalis :
    /\ Returned(lye[a])
    /\ Len(oils) = 2
    /\ oils[1].name # oils[2].name
    /\ oils[1].weight_g # oils[2].weight_g
    /\ lye[a].df.data[1].Oil = oils[1].name

----------------------------------------------------------------------------
(* The claims about the water functions (WaterSpec).                       *)

\* C3: water_from_lye_concentration raises exactly when c = pct/100 has
\* c <= 0 or c >= 1 and otherwise returns lye * (1 - c) / c;
\* water_from_water_lye_ratio raises exactly when ratio <= 0 and otherwise
\* returns lye * ratio.  Nothing is clamped.
C3_WaterDomain ==
  /\ conc # NotCalled =>
       LET c == FDiv(conc.pct, F100)
       IN  IF FCmp(c, FZero) <= 0 \/ FCmp(c, F1) >= 0
           THEN conc.result.status = "ValueError"
           ELSE /\ Returned(conc.result)
                /\ conc.result.water = FDiv(FMul(lye_g, FSub(F1, c)), c)
  /\ ratio # NotCalled =>
       IF FCmp(ratio.ratio, FZero) <= 0
       THEN ratio.result.status = "ValueError"
       ELSE /\ Returned(ratio.result)
            /\ ratio.result.water = FMul(lye_g, ratio.ratio)

\* a concentration of exactly 100% rejected and a ratio of 2 accepted
C3_Witness ==
  /\ conc # NotCalled /\ conc.pct = F100 /\ conc.result.status = "ValueError"
  /\ ratio # NotCalled /\ ratio.ratio = FromInt(2) /\ Returned(ratio.result)
  /\ ~IsZero(lye_g)

C5_Case ==
  /\ conc # NotCalled /\ ratio # NotCalled
  /\ ValidPct(conc.pct)
  /\ ratio.ratio = EquivalentRatio(conc.pct)

\* C5 as stated: for 0 < c < 1 the concentration call and the ratio call with
\* r = (1 - c)/c both succeed and return the same water mass.
C5_SameWater ==
  C5_Case =>
    /\ Returned(conc.result) /\ Returned(ratio.result)
    /\ conc.result.water = ratio.result.water

\* C5 amended: for 0 < c < 1 (c = pct/100) both calls succeed and their water
\* masses differ by at most 2^-50 of the water mass (rounding error).
C5_NearWater ==
  C5_Case =>
    /\ Returned(conc.result) /\ Returned(ratio.result)
    /\ WithinRel(conc.result.water, ratio.result.water, 1, 50)

\* equivalent parameters whose water masses differ in the last bits
C5_Witness ==
  /\ C5_Case
  /\ Returned(conc.result) /\ Returned(ratio.result)
  /\ conc.result.water # ratio.result.water

----------------------------------------------------------------------------
(* The claims about the page's runs (Spec).                                *)

\* C9: in every run the results are displayed only if the total oil weight
\* is > 0 and the water calculation raised no error; calc_lye_required is
\* never invoked when the total oil weight is <= 0 (the run halts with the
\* warning), and when the water calculation raises the run halts after
\* showing the error, with no totals displayed.
C9_ResultsOnlyWhenValid ==
  /\ run.shown.status = "shown" =>
       /\ run.total_oils_g.status = "known"
       /\ FCmp(run.total_oils_g.g, FZero) > 0
       /\ run.lye_called
       /\ run.water_status = "returned"
  /\ (run.total_oils_g.status = "known" /\ FLe(run.total_oils_g.g, FZero)) =>
       /\ ~run.lye_called
       /\ run.outcome = "warning"
       /\ run.shown = NothingShown
  /\ run.water_status = "ValueError" =>
       /\ run.outcome = "error"
       /\ run.shown = NothingShown

\* a run over two rows, one of them of weight 0, that displayed its results
C9_Witness ==
  /\ run.shown.status = "shown"
  /\ Len(oil_rows) = 2
  /\ \E i \in 1..2 : IsZero(oil_rows[i].weight)
  /\ FCmp(run.shown.total_lye_g, FZero) > 0

\* C10: every oil row that reaches the conversion to grams has a name that
\* is a key of SAP_NAOH, and every run ends in the zero-weight warning, a
\* displayed water-mode error or displayed results, never in an uncaught
\* lookup failure.
C10_NoLookupFailure ==
  /\ \A i \in 1..Len(oil_rows) : oil_rows[i].name \in DOMAIN SAP_NAOH
  /\ run.outcome \in {"warning", "error", "results"}
====
